---- MODULE Spec2Model ----
(***************************************************************************)
(* Model of run-pxe-server.py, the launcher of the containerized PXE boot  *)
(* server.  Text (IP addresses, labels, profile names, the persisted env   *)
(* file) is a sequence of one-character strings, so that split, strip,     *)
(* replace, lower and re.sub are computed as Python computes them.         *)
(* The container engine is an external collaborator: the managed container *)
(* changes only through the podman commands the launcher issues, and each  *)
(* command's exit status is a nondeterministic input.                      *)
(***************************************************************************)
EXTENDS Integers, Sequences, FiniteSets, TLC

(* ------------------------------ bounds --------------------------------- *)
\* third octets 0..MaxOctet are offered as user-entered server IPs
MaxOctet == 0
\* source labels are built from up to MaxRep repetitions of a 2-char block
MaxRep == 11

(* --------------------------- text primitives --------------------------- *)
NL == "\n"
QUOTE == "\""
Whitespace == {" ", NL, "\t"}

UpperChars == <<"A","B","C","D","E","F","G","H","I","J","K","L","M","N","O","P","Q","R","S","T","U","V","W","X","Y","Z">>
LowerChars == <<"a","b","c","d","e","f","g","h","i","j","k","l","m","n","o","p","q","r","s","t","u","v","w","x","y","z">>
DigitChars == <<"0","1","2","3","4","5","6","7","8","9">>

Range(s) == {s[i] : i \in DOMAIN s}

\* str.lower() on one character
LowerChar(c) ==
    IF c \in Range(UpperChars)
    THEN LowerChars[CHOOSE i \in DOMAIN UpperChars : UpperChars[i] = c]
    ELSE c

\* str.lower()
Lower(s) == [i \in DOMAIN s |-> LowerChar(s[i])]

\* s[:n]
Take(s, n) == IF Len(s) <= n THEN s ELSE SubSeq(s, 1, n)

\* s[n:]
Drop(s, n) == IF Len(s) <= n THEN <<>> ELSE SubSeq(s, n + 1, Len(s))

\* str.startswith(p)
StartsWith(s, p) == Len(p) <= Len(s) /\ SubSeq(s, 1, Len(p)) = p

\* c in s
Contains(s, c) == \E i \in DOMAIN s : s[i] = c

\* index of the first occurrence of character c in s (0 when absent)
IndexOf(s, c) ==
    IF Contains(s, c) THEN CHOOSE i \in DOMAIN s : s[i] = c /\ \A j \in 1..(i - 1) : s[j] # c
    ELSE 0

RECURSIVE Split(_, _)
\* str.split(c): always at least one part, empty parts kept
Split(s, c) ==
    IF ~Contains(s, c) THEN <<s>>
    ELSE LET i == IndexOf(s, c)
         IN  <<SubSeq(s, 1, i - 1)>> \o Split(Drop(s, i), c)

\* str.split(c, 1) on a string that contains c
SplitFirst(s, c) ==
    LET i == IndexOf(s, c) IN <<SubSeq(s, 1, i - 1), Drop(s, i)>>

RECURSIVE LStripSet(_, _)
LStripSet(s, cs) ==
    IF s # <<>> /\ s[1] \in cs THEN LStripSet(Tail(s), cs) ELSE s

RECURSIVE RStripSet(_, _)
RStripSet(s, cs) ==
    IF s # <<>> /\ s[Len(s)] \in cs THEN RStripSet(SubSeq(s, 1, Len(s) - 1), cs) ELSE s

\* str.strip()
Strip(s) == RStripSet(LStripSet(s, Whitespace), Whitespace)

\* mutant: the quotes are not stripped
StripChar_Keep(s, ch) == s

\* str.strip(ch)
StripChar(s, ch) == RStripSet(LStripSet(s, {ch}), {ch})

RECURSIVE Replace(_, _, _)
\* str.replace(pat, rep), pat non-empty: leftmost non-overlapping occurrences
Replace(s, pat, rep) ==
    IF s = <<>> THEN <<>>
    ELSE IF StartsWith(s, pat) THEN rep \o Replace(Drop(s, Len(pat)), pat, rep)
    ELSE <<s[1]>> \o Replace(Tail(s), pat, rep)

\* re.sub('[^...]', '_', s) for the character class `allowed`
ReSub(s, allowed) == [i \in DOMAIN s |-> IF s[i] \in allowed THEN s[i] ELSE "_"]

RECURSIVE Concat(_)
\* ''.join(parts)
Concat(parts) == IF parts = <<>> THEN <<>> ELSE Head(parts) \o Concat(Tail(parts))

RECURSIVE Digits(_)
\* decimal rendering of a natural number
Digits(n) == IF n < 10 THEN <<DigitChars[n + 1]>> ELSE Digits(n \div 10) \o <<DigitChars[(n % 10) + 1]>>

\* the dotted text of a tuple of octets
Dotted(o) == Digits(o[1]) \o <<".">> \o Digits(o[2]) \o <<".">> \o Digits(o[3]) \o <<".">> \o Digits(o[4])

RECURSIVE Rep(_, _)
Rep(block, n) == IF n = 0 THEN <<>> ELSE block \o Rep(block, n - 1)

(* ------------------------- program constants --------------------------- *)
DEFAULT_PXE_IP == <<"1","9","2",".","1","6","8",".","0",".","1">>
DEFAULT_NETMASK == <<"2","5","5",".","2","5","5",".","2","5","5",".","0">>
NoIp == <<"-","-">>
ProfileMaxLen == 20

AlnumChars == Range(UpperChars) \cup Range(LowerChars) \cup Range(DigitChars)
WordChars == AlnumChars \cup {"_"}

HEADER == <<"#"," ","P","X","E"," ","S","e","r","v","e","r"," ","C","o","n","f","i","g","u","r","a","t","i","o","n">>
K_INTERFACE == <<"P","X","E","_","I","N","T","E","R","F","A","C","E">>
K_SERVER_IP == <<"P","X","E","_","S","E","R","V","E","R","_","I","P">>
K_SUBNET == <<"P","X","E","_","S","U","B","N","E","T">>
K_NETMASK == <<"P","X","E","_","N","E","T","M","A","S","K">>
K_ROUTER == <<"P","X","E","_","R","O","U","T","E","R">>
K_DNS == <<"P","X","E","_","D","N","S">>
K_RANGE_START == <<"P","X","E","_","R","A","N","G","E","_","S","T","A","R","T">>
K_RANGE_END == <<"P","X","E","_","R","A","N","G","E","_","E","N","D">>
PXE_PREFIX == <<"P","X","E","_">>
UNKNOWN == <<"u","n","k","n","o","w","n">>
KEY_interface == <<"i","n","t","e","r","f","a","c","e">>
KEY_server_ip == <<"s","e","r","v","e","r","_","i","p">>
KEY_range_start == <<"r","a","n","g","e","_","s","t","a","r","t">>
KEY_range_end == <<"r","a","n","g","e","_","e","n","d">>

(* ----------------------- configuration deriver ------------------------- *)
\* get_pxe_configuration: the default offered at the IP prompt
DefaultIp(iface) == IF iface.ip # NoIp THEN iface.ip ELSE DEFAULT_PXE_IP

\* get_pxe_configuration: config['server_ip'] from the raw prompt answer
ServerIp(iface, answer) == IF Strip(answer) # <<>> THEN Strip(answer) ELSE DefaultIp(iface)

\* ip_parts[2] raises IndexError when the text has fewer than three parts
ConfigRaises(iface, answer) == Len(Split(ServerIp(iface, answer), ".")) < 3

\* mutant: the second part is used twice
First3Plus_RepeatSecond(ip_parts, last) ==
    ip_parts[1] \o <<".">> \o ip_parts[2] \o <<".">> \o ip_parts[2] \o <<".">> \o last

\* f"{ip_parts[0]}.{ip_parts[1]}.{ip_parts[2]}.<last>"
First3Plus(ip_parts, last) ==
    ip_parts[1] \o <<".">> \o ip_parts[2] \o <<".">> \o ip_parts[3] \o <<".">> \o last

\* get_pxe_configuration: the config dict for a selected interface and answer
PxeConfiguration(iface, answer) ==
    LET sip == ServerIp(iface, answer)
        ip_parts == Split(sip, ".")
    IN  [interface |-> iface.name,
         server_ip |-> sip,
         subnet |-> First3Plus(ip_parts, <<"0">>),
         netmask |-> DEFAULT_NETMASK,
         range_start |-> First3Plus(ip_parts, <<"2","0","1">>),
         range_end |-> First3Plus(ip_parts, <<"2","4","0">>),
         router |-> sip,
         dns |-> sip]

\* mutant: the default name is not truncated
DefaultProfile_NoTruncate(label) == Lower(ReSub(label, AlnumChars))

\* get_profile_config: re.sub(r'[^a-zA-Z0-9]', '_', label)[:20].lower()
DefaultProfile(label) == Lower(Take(ReSub(label, AlnumChars), ProfileMaxLen))

\* get_profile_config: the profile name for a source label and a prompt answer
ProfileName(label, answer) ==
    ReSub(IF Strip(answer) # <<>> THEN Strip(answer) ELSE DefaultProfile(label), WordChars)

(* --------------------------- persistence ------------------------------- *)
\* one KEY="value" line of the env file, newline included
EnvLine(key, value) == key \o <<"=", QUOTE>> \o value \o <<QUOTE, NL>>

\* main: env_content, the text written to pxe-server.env
EnvContent(config) ==
    HEADER \o <<NL>>
    \o EnvLine(K_INTERFACE, config.interface)
    \o EnvLine(K_SERVER_IP, config.server_ip)
    \o EnvLine(K_SUBNET, config.subnet)
    \o EnvLine(K_NETMASK, config.netmask)
    \o EnvLine(K_ROUTER, config.router)
    \o EnvLine(K_DNS, config.dns)
    \o EnvLine(K_RANGE_START, config.range_start)
    \o EnvLine(K_RANGE_END, config.range_end)

RECURSIVE ParseLines(_)
\* main --status: the dict built from the lines, as a sequence of
\* <<key, value>> assignments in file order
ParseLines(lines) ==
    IF lines = <<>> THEN <<>>
    ELSE LET line == Head(lines)
         IN  IF Contains(line, "=") /\ ~StartsWith(line, <<"#">>)
             THEN LET kv == SplitFirst(line, "=")
                      key == Lower(Replace(Strip(kv[1]), PXE_PREFIX, <<>>))
                      value == StripChar(Strip(kv[2]), QUOTE)
                  IN  <<(<<key, value>>)>> \o ParseLines(Tail(lines))
             ELSE ParseLines(Tail(lines))

\* dict.get(key, default): the last assignment to key wins
DictGet(d, key, default) ==
    IF \E i \in DOMAIN d : d[i][1] = key
    THEN d[CHOOSE i \in DOMAIN d : d[i][1] = key /\ \A j \in (i + 1)..Len(d) : d[j][1] # key][2]
    ELSE default

\* main --status: the config handed to show_status, from the file's text
LoadEnv(text) ==
    LET d == ParseLines(Split(Strip(text), NL))
    IN  [interface |-> DictGet(d, KEY_interface, UNKNOWN),
         server_ip |-> DictGet(d, KEY_server_ip, UNKNOWN),
         range_start |-> DictGet(d, KEY_range_start, UNKNOWN),
         range_end |-> DictGet(d, KEY_range_end, UNKNOWN)]

(* ------------------------ names, paths, inputs ------------------------- *)
IMAGE_NAME == "quay.io/tmichett/fedoraremixpxe:latest"
CONTAINER_NAME == "pxe-server"
SOURCE_MOUNT == <<"mnt", "source">>

\* main: Path.home() / ".local" / "share" / "fedoraremix-pxe" / "data" (paths
\* are sequences of components)
DataDir == <<"~", ".local", "share", "fedoraremix-pxe", "data">>
ConfigDir == <<"~", ".local", "share", "fedoraremix-pxe", "config">>
Parent(path) == SubSeq(path, 1, Len(path) - 1)

\* what get_network_interfaces can report (after filtering): nothing, or a
\* wired interface with an address and one without
Eth0 == [name |-> <<"e","t","h","0">>, ip |-> Dotted(<<10, 0, 5, 9>>)]
Enp3s0 == [name |-> <<"e","n","p","3","s","0">>, ip |-> NoIp]
InterfaceLists == {<<>>, <<Eth0, Enp3s0>>}

\* octet tuples the user may type at the IP prompt
TypedOctets == {<<172, 16, c, 1>> : c \in 0..MaxOctet}
\* answers at the IP prompt: Enter, a dotted quad, or a text with two parts
IpAnswers == {<<>>, <<"1","0",".","0">>} \cup {Dotted(o) : o \in TypedOctets}

\* boot sources select_source can return
NoSource == [type |-> "none", path |-> <<>>, label |-> <<>>]
Unchosen == [type |-> "unset", path |-> <<>>, label |-> <<>>]
UsbSource == [type |-> "usb", path |-> <<"run", "media", "user", "MyLive_Remix">>,
              label |-> <<"M","y","L","i","v","e","_","R","e","m","i","x">>]
IsoSource == [type |-> "iso", path |-> <<"srv", "iso", "remix.iso">>,
              label |-> Rep(<<"F", "-">>, MaxRep)]
Sources == {NoSource, UsbSource, IsoSource}

\* answers at the profile-name prompt: Enter, a mixed-case name with a
\* space, a long name
NameAnswers == {<<>>, <<"M","y"," ","P","X","E">>, Rep(<<"a", "B">>, MaxRep)}

DEFAULT_LABEL == "Fedora Remix LiveCD"
Services == {"dhcpd", "in.tftpd", "httpd"}

NoConfig == [interface |-> <<>>, server_ip |-> <<>>, subnet |-> <<>>, netmask |-> <<>>,
             range_start |-> <<>>, range_end |-> <<>>, router |-> <<>>, dns |-> <<>>]
NoProfile == [exists |-> FALSE, profile |-> <<>>, label |-> "", source |-> NoSource]
NoShown == [interface |-> <<>>, server_ip |-> <<>>, range_start |-> <<>>, range_end |-> <<>>]
NoFile == [exists |-> FALSE, text |-> <<>>]
NoPick == [iface |-> [name |-> <<>>, ip |-> NoIp], answer |-> <<>>]

(* ------------------------- container engine ---------------------------- *)
NoArgs == [name |-> "", network |-> "", caps |-> {}, privileged |-> FALSE,
           env |-> [DHCP_INTERFACE |-> <<>>, PXE_SERVER_IP |-> <<>>],
           volumes |-> {}, image |-> ""]
Absent == [status |-> "absent", args |-> NoArgs]

\* start_container: the three -v volumes, shared by both templates
DataVolumes(data_dir, config_dir) ==
    {<<data_dir \o <<"tftpboot">>, <<"var", "lib", "tftpboot">>, "Z">>,
     <<data_dir \o <<"http">>, <<"var", "www", "html">>, "Z">>,
     <<config_dir \o <<"dhcpd.conf">>, <<"etc", "dhcp", "dhcpd.conf">>, "Z">>}

\* mutant: the serving template mounts a config directory below data_dir
ServingArgs_ConfigInData(config, data_dir, config_dir) ==
    [name |-> CONTAINER_NAME, network |-> "host", caps |-> {"NET_ADMIN", "NET_RAW"},
     privileged |-> FALSE,
     env |-> [DHCP_INTERFACE |-> config.interface, PXE_SERVER_IP |-> config.server_ip],
     volumes |-> DataVolumes(data_dir, data_dir \o <<"config">>), image |-> IMAGE_NAME]

\* start_container: the podman run command of the serving template
ServingArgs(config, data_dir, config_dir) ==
    [name |-> CONTAINER_NAME, network |-> "host", caps |-> {"NET_ADMIN", "NET_RAW"},
     privileged |-> FALSE,
     env |-> [DHCP_INTERFACE |-> config.interface, PXE_SERVER_IP |-> config.server_ip],
     volumes |-> DataVolumes(data_dir, config_dir), image |-> IMAGE_NAME]

\* mutant: the extraction template without --privileged and the source mount
ExtractionArgs_AsServing(config, source, data_dir) ==
    [name |-> CONTAINER_NAME, network |-> "host", caps |-> {"NET_ADMIN", "NET_RAW"},
     privileged |-> FALSE,
     env |-> [DHCP_INTERFACE |-> config.interface, PXE_SERVER_IP |-> config.server_ip],
     volumes |-> DataVolumes(data_dir, Parent(data_dir) \o <<"config">>),
     image |-> IMAGE_NAME]

\* extract_boot_files: the podman run command of the extraction template
ExtractionArgs(config, source, data_dir) ==
    [name |-> CONTAINER_NAME, network |-> "host", caps |-> {"NET_ADMIN", "NET_RAW"},
     privileged |-> TRUE,
     env |-> [DHCP_INTERFACE |-> config.interface, PXE_SERVER_IP |-> config.server_ip],
     volumes |-> DataVolumes(data_dir, Parent(data_dir) \o <<"config">>)
                 \cup {<<source.path, SOURCE_MOUNT, "ro">>},
     image |-> IMAGE_NAME]

HasSourceMount(args) == \E v \in args.volumes : v[2] = SOURCE_MOUNT
IsServing(c) == c.status # "absent" /\ ~c.args.privileged /\ ~HasSourceMount(c.args)
IsExtracting(c) == c.status # "absent" /\ c.args.privileged /\ HasSourceMount(c.args)

\* podman stop: a running container stops unless the engine fails (ok = FALSE)
PodmanStop(c, ok) ==
    IF c.status = "running"
    THEN IF ok THEN [c |-> [c EXCEPT !.status = "stopped"], rc |-> 0] ELSE [c |-> c, rc |-> 1]
    ELSE [c |-> c, rc |-> IF c.status = "stopped" THEN 0 ELSE 1]

\* podman rm (no -f): only a container that is not running is removed
PodmanRm(c) ==
    IF c.status = "stopped" THEN [c |-> Absent, rc |-> 0] ELSE [c |-> c, rc |-> 1]

\* podman run -d --name: fails when the name is in use; otherwise it starts
\* the container ("ok"), fails before creating it ("fail_clean") or fails
\* after creating it ("fail_created")
PodmanRun(c, args, outcome) ==
    IF c.status # "absent" THEN [c |-> c, rc |-> 1]
    ELSE IF outcome = "ok" THEN [c |-> [status |-> "running", args |-> args], rc |-> 0]
    ELSE IF outcome = "fail_created" THEN [c |-> [status |-> "stopped", args |-> args], rc |-> 1]
    ELSE [c |-> c, rc |-> 1]

\* podman exec: the command's own status when the container runs, else an
\* engine error
PodmanExec(c, cmdRc) == IF c.status = "running" THEN cmdRc ELSE 1

\* container_exists / container_running
container_exists(c) == c.status # "absent"
container_running(c) == container_exists(c) /\ c.status = "running"

\* mutant: a non-zero status raises whatever check says
RunCmd_AlwaysCheck(check, rc) == IF rc # 0 THEN "raise" ELSE "return"

\* run_cmd: with check, a non-zero status raises CalledProcessError
RunCmd(check, rc) == IF check /\ rc # 0 THEN "raise" ELSE "return"

Cmd(name, what, rc) == [cmd |-> name, what |-> what, rc |-> rc]
AnyRaise(check, cs) == \E i \in DOMAIN cs : RunCmd(check, cs[i].rc) = "raise"

(* -------------------------- source discovery ------------------------- *)
\* find_usb_drives: mount_locations
MountLocations == {<<"run", "media">>, <<"media">>, <<"mnt">>}
MARKER == <<"LiveOS", "squashfs.img">>

\* directories that may be mounts: two levels below a root, two levels below
\* under a directory named root, one level below, one level below and named
\* root, three levels below, and a root itself
MountCandidates == {<<"run", "media", "user", "LIVE">>, <<"run", "media", "root", "LIVE">>,
                    <<"media", "LIVE">>, <<"mnt", "root">>,
                    <<"media", "x", "y", "DEEP">>, <<"mnt">>}
\* a candidate is missing, an empty directory, a directory holding
\* LiveOS/squashfs.img, or a regular file
MountKinds(c) == IF c = <<"mnt">> THEN {"missing", "marked"}
                 ELSE {"missing", "dir", "marked", "file"}
MountTables == {m \in [MountCandidates -> {"missing", "dir", "marked", "file"}] :
                   \A c \in MountCandidates : m[c] \in MountKinds(c)}

Prefixes(path) == {SubSeq(path, 1, n) : n \in 1..(Len(path) - 1)}

\* the filesystem below the roots for a table of mounts: a set of entries
\* [path, kind]; the ancestors of whatever is present are directories
FileSystem(m) ==
    LET present == {c \in MountCandidates : m[c] # "missing"}
        own == {[path |-> c, kind |-> IF m[c] = "file" THEN "file" ELSE "dir"] : c \in present}
        marked == {c \in present : m[c] = "marked"}
        live == {[path |-> c \o <<"LiveOS">>, kind |-> "dir"] : c \in marked}
                \cup {[path |-> c \o MARKER, kind |-> "file"] : c \in marked}
        above == {[path |-> a, kind |-> "dir"] : a \in UNION {Prefixes(c) : c \in present}}
    IN  own \cup live \cup above

\* Path.exists(), Path.is_dir(), Path.iterdir(), Path.name
Exists(fs, path) == \E e \in fs : e.path = path
IsDir(fs, path) == \E e \in fs : e.path = path /\ e.kind = "dir"
IterDir(fs, path) == {e.path : e \in {x \in fs : Len(x.path) = Len(path) + 1
                                                   /\ SubSeq(x.path, 1, Len(path)) = path}}
Name(path) == path[Len(path)]

\* mutant: the directory named root is listed like any other
SearchDirs_RootToo(fs, user_dir) == {user_dir} \cup IterDir(fs, user_dir)

\* find_usb_drives, lines 275-277: the directory itself and, unless it is
\* named root, its entries
SearchDirs(fs, user_dir) ==
    {user_dir} \cup (IF Name(user_dir) \notin {"root"} THEN IterDir(fs, user_dir) ELSE {})

\* find_usb_drives: the drives found (the list's order is the directory
\* listing order)
FindUsbDrives(fs) ==
    LET bases == {b \in MountLocations : Exists(fs, b)}
        user_dirs == {u \in UNION {IterDir(fs, b) : b \in bases} : IsDir(fs, u)}
        hits == {mount \in UNION {SearchDirs(fs, u) : u \in user_dirs} :
                    IsDir(fs, mount) /\ Exists(fs, mount \o MARKER)}
    IN  {[path |-> mount, label |-> Name(mount)] : mount \in hits}

\* the host of the interactive runs: the live USB stick is mounted
HostMounts == [c \in MountCandidates |->
                 IF c = <<"run", "media", "user", "LIVE">> THEN "marked" ELSE "missing"]

(* ----------------------- container lifecycle --------------------------- *)
\* mutant: an existing container is not stopped and removed first
StartContainer_NoTeardown(c, config, o) ==
    LET n == PodmanRun(c, ServingArgs(config, DataDir, ConfigDir), o.run)
    IN  [container |-> n.c,
         cmds |-> <<Cmd("run", "serving", n.rc)>>,
         ret |-> (n.rc = 0)]

\* start_container: stop and remove an existing container, create the data
\* directories, run the serving template; o gives the engine's outcomes
StartContainer(c, config, o) ==
    LET s == PodmanStop(c, o.stop)
        r == PodmanRm(s.c)
        c1 == IF container_exists(c) THEN r.c ELSE c
        pre == IF container_exists(c)
               THEN <<Cmd("stop", "", s.rc), Cmd("rm", "", r.rc)>> ELSE <<>>
        n == PodmanRun(c1, ServingArgs(config, DataDir, ConfigDir), o.run)
    IN  [container |-> n.c,
         cmds |-> pre \o <<Cmd("run", "serving", n.rc)>>,
         ret |-> (n.rc = 0)]

\* mutant: a failed extraction tears the container down
AfterFailedExtraction_Rollback(c) == PodmanRm(PodmanStop(c, TRUE).c).c

\* extract_boot_files, lines 618-620: a failed extraction logs the error and
\* returns False; the container is not touched
AfterFailedExtraction(c) == c

\* mutant: the failed restart does not return, the entrypoint is run anyway
ExtractBootFiles_ExecAnyway(c, profile, config, o) ==
    LET s == PodmanStop(c, o.stop)
        r == PodmanRm(s.c)
        n == PodmanRun(r.c, ExtractionArgs(config, profile.source, DataDir), o.run)
        e == PodmanExec(n.c, o.exec)
        pre == <<Cmd("stop", "", s.rc), Cmd("rm", "", r.rc), Cmd("run", "extracting", n.rc)>>
    IN  IF ~profile.exists
        THEN [container |-> c, cmds |-> <<>>, ret |-> TRUE]
        ELSE [container |-> IF e = 0 THEN n.c ELSE AfterFailedExtraction(n.c),
              cmds |-> pre \o <<Cmd("exec", "extract-boot-files.sh", e)>>,
              ret |-> (e = 0)]

\* extract_boot_files: nothing to do without a profile; otherwise stop,
\* remove, run the extraction template, then exec the extraction entrypoint
ExtractBootFiles(c, profile, config, o) ==
    LET s == PodmanStop(c, o.stop)
        r == PodmanRm(s.c)
        n == PodmanRun(r.c, ExtractionArgs(config, profile.source, DataDir), o.run)
        e == PodmanExec(n.c, o.exec)
        pre == <<Cmd("stop", "", s.rc), Cmd("rm", "", r.rc), Cmd("run", "extracting", n.rc)>>
    IN  IF ~profile.exists
        THEN [container |-> c, cmds |-> <<>>, ret |-> TRUE]
        ELSE IF n.rc # 0
        THEN [container |-> n.c, cmds |-> pre, ret |-> FALSE]
        ELSE [container |-> IF e = 0 THEN n.c ELSE AfterFailedExtraction(n.c),
              cmds |-> pre \o <<Cmd("exec", "extract-boot-files.sh", e)>>,
              ret |-> (e = 0)]

\* mutant: a profile is built even when no source was chosen
GetProfileConfig_ForNone(source, answer) ==
    [exists |-> TRUE, profile |-> ProfileName(source.label, answer),
     label |-> DEFAULT_LABEL, source |-> source]

\* get_profile_config: None for no source, else the profile dict
GetProfileConfig(source, answer) ==
    IF source = NoSource THEN NoProfile
    ELSE [exists |-> TRUE, profile |-> ProfileName(source.label, answer),
          label |-> DEFAULT_LABEL, source |-> source]

\* mutant: the answer at the confirmation prompt is ignored
ConfirmNext_NeverCancel(answer) == "proceed"

\* main, lines 804-807: 'n' at the confirmation prompt cancels
ConfirmNext(answer) == IF answer = "n" THEN "cancel" ELSE "proceed"

\* mutant: start_container's return value is ignored
AfterStartNext_IgnoreFailure(ok, hasProfile) == IF hasProfile THEN "extract" ELSE "show_status"

\* main, lines 826-831: what follows start_container's return value
AfterStartNext(ok, hasProfile) ==
    IF ~ok THEN "exit1" ELSE IF hasProfile THEN "extract" ELSE "show_status"

\* mutant: a failed extraction aborts the run
AfterExtractNext_AbortOnFailure(ok) == IF ok THEN "show_status" ELSE "exit1"

\* main, lines 831-836: what follows extract_boot_files' return value
AfterExtractNext(ok) == "show_status"

\* show_status, lines 634-636: the fields of config it prints
Shown(config) == [interface |-> config.interface, server_ip |-> config.server_ip,
                  range_start |-> config.range_start, range_end |-> config.range_end]

(* ------------------------------- state --------------------------------- *)
VARIABLES
    podmanInstalled,  \* shutil.which("podman")
    imagePresent,     \* podman image exists
    container,        \* the managed container: status and creation arguments
    envFile,          \* config_dir/pxe-server.env
    dataDirs,         \* data_dir/tftpboot and data_dir/http exist
    savedCfg,         \* history: the config of the last write of envFile
    pc,               \* position of the current invocation
    mode,             \* the command-line flag
    isRoot,           \* os.geteuid() == 0
    config,           \* main's config
    profile_config,   \* main's profile_config
    nameAnswer,       \* history: the answer at the profile-name prompt
    picked,           \* history: the selected interface and the IP prompt answer
    confirmAnswer,    \* history: the answer at the confirmation prompt
    chosenSource,     \* history: what select_source returned
    nm,               \* outcome of configure_network_interface
    startOk,          \* start_container's return value
    extractOk,        \* extract_boot_files' return value
    cmds,             \* podman commands issued by this invocation, in order
    out,              \* messages printed by this invocation
    term,             \* how the invocation ended
    services,         \* show_status: up/down indicator per probed process
    shown,            \* show_status: the configuration it printed
    loaded,           \* --status: the config parsed from envFile
    envAtStart,       \* history: envFile when the invocation began
    writes,           \* history: writes of envFile by this invocation
    mounts,           \* the host's mount directories under the scanned roots
    drives,           \* find_usb_drives' return value
    scanPc            \* position of the drive scan

persistent == <<podmanInstalled, imagePresent, container, envFile, dataDirs, savedCfg>>
locals == <<pc, mode, isRoot, config, profile_config, nameAnswer, picked, confirmAnswer,
            chosenSource, nm, startOk, extractOk,
            cmds, out, term, services, shown, loaded, envAtStart, writes>>
scan == <<mounts, drives, scanPc>>
vars == <<persistent, locals, scan>>

Modes == {"interactive", "status", "stop", "logs", "shell"}
AllDown == [s \in Services |-> FALSE]

\* a container left by an earlier session (or created by hand): the serving
\* template of the fallback configuration
PriorArgs == ServingArgs(PxeConfiguration(Enp3s0, <<>>), DataDir, ConfigDir)

\* the locals of main before any invocation
LocalsInit ==
    /\ pc = "idle"
    /\ mode = "interactive"
    /\ isRoot = FALSE
    /\ config = NoConfig
    /\ profile_config = NoProfile
    /\ nameAnswer = <<>>
    /\ picked = NoPick
    /\ confirmAnswer = "-"
    /\ chosenSource = Unchosen
    /\ nm = "none"
    /\ startOk = "none"
    /\ extractOk = "none"
    /\ cmds = <<>>
    /\ out = {}
    /\ term = "none"
    /\ services = AllDown
    /\ shown = NoShown
    /\ loaded = NoShown
    /\ envAtStart = NoFile
    /\ writes = 0

Init ==
    /\ podmanInstalled \in BOOLEAN
    /\ imagePresent \in BOOLEAN
    /\ container \in {Absent, [status |-> "running", args |-> PriorArgs],
                      [status |-> "stopped", args |-> PriorArgs]}
    /\ envFile = NoFile
    /\ dataDirs = FALSE
    /\ savedCfg = NoConfig
    /\ LocalsInit
    /\ mounts = HostMounts
    /\ drives = {}
    /\ scanPc = "off"

(* ------------------------------ actions -------------------------------- *)
\* a new invocation: parse the flag, create data_dir and config_dir,
\* check_podman (main, lines 704-712)
Invoke(m, root) ==
    /\ pc \in {"idle", "exited"}
    /\ mode' = m
    /\ isRoot' = root
    /\ config' = NoConfig
    /\ profile_config' = NoProfile
    /\ nameAnswer' = <<>>
    /\ picked' = NoPick
    /\ confirmAnswer' = "-"
    /\ chosenSource' = Unchosen
    /\ nm' = "none"
    /\ startOk' = "none"
    /\ extractOk' = "none"
    /\ cmds' = <<>>
    /\ services' = AllDown
    /\ shown' = NoShown
    /\ loaded' = NoShown
    /\ envAtStart' = envFile
    /\ writes' = 0
    /\ IF podmanInstalled
       THEN pc' = "dispatch" /\ term' = "none" /\ out' = {}
       ELSE pc' = "exited" /\ term' = "exit1" /\ out' = {"ERROR Podman is not installed"}
    /\ UNCHANGED persistent
    /\ UNCHANGED scan

\* --stop (main, lines 715-722)
CmdStop ==
    /\ pc = "dispatch" /\ mode = "stop"
    /\ pc' = "exited"
    /\ \/ /\ ~isRoot
          /\ term' = "exit1"
          /\ out' = out \cup {"ERROR must be run as root"}
          /\ UNCHANGED <<container, cmds>>
       \/ /\ isRoot /\ ~container_running(container)
          /\ term' = "return"
          /\ out' = out \cup {"WARN PXE server is not running"}
          /\ UNCHANGED <<container, cmds>>
       \/ /\ isRoot /\ container_running(container)
          /\ \E ok \in BOOLEAN :
                LET s == PodmanStop(container, ok)
                IN  /\ container' = s.c
                    /\ cmds' = cmds \o <<Cmd("stop", "", s.rc)>>
                    /\ IF RunCmd(TRUE, s.rc) = "raise"
                       THEN term' = "traceback" /\ out' = out
                       ELSE term' = "return" /\ out' = out \cup {"INFO PXE server stopped"}
    /\ UNCHANGED <<podmanInstalled, imagePresent, envFile, dataDirs, savedCfg>>
    /\ UNCHANGED scan
    /\ UNCHANGED <<mode, isRoot, chosenSource, picked, confirmAnswer, config, profile_config, nameAnswer, nm, startOk, extractOk,
                   services, shown, loaded, envAtStart, writes>>

\* --logs (main, lines 724-729): the process image is replaced by podman logs
CmdLogs ==
    /\ pc = "dispatch" /\ mode = "logs"
    /\ pc' = "exited"
    /\ IF container_exists(container)
       THEN term' = "execvp" /\ out' = out
       ELSE term' = "return" /\ out' = out \cup {"ERROR Container not found"}
    /\ UNCHANGED persistent
    /\ UNCHANGED scan
    /\ UNCHANGED <<mode, isRoot, chosenSource, picked, confirmAnswer, config, profile_config, nameAnswer, nm, startOk, extractOk,
                   cmds, services, shown, loaded, envAtStart, writes>>

\* --shell (main, lines 731-736)
CmdShell ==
    /\ pc = "dispatch" /\ mode = "shell"
    /\ pc' = "exited"
    /\ IF container_running(container)
       THEN term' = "execvp" /\ out' = out
       ELSE term' = "return" /\ out' = out \cup {"ERROR Container is not running"}
    /\ UNCHANGED persistent
    /\ UNCHANGED scan
    /\ UNCHANGED <<mode, isRoot, chosenSource, picked, confirmAnswer, config, profile_config, nameAnswer, nm, startOk, extractOk,
                   cmds, services, shown, loaded, envAtStart, writes>>

\* show_status(cfg): probe the three processes with podman exec pgrep, then
\* list the data directories (iterdir raises when they do not exist).
\* probe[s] is pgrep's own exit status for process s.
ShowStatus(cfg, probe) ==
    LET rc == [s \in Services |-> PodmanExec(container, probe[s])]
        raised == \E s \in Services : RunCmd(FALSE, rc[s]) = "raise"
    IN  /\ cmds' = cmds \o <<Cmd("pgrep", "dhcpd", rc["dhcpd"]),
                             Cmd("pgrep", "in.tftpd", rc["in.tftpd"]),
                             Cmd("pgrep", "httpd", rc["httpd"])>>
        /\ shown' = Shown(cfg)
        /\ IF raised \/ ~dataDirs
           THEN /\ term' = "traceback"
                /\ services' = services
                /\ out' = out
           ELSE /\ term' = "return"
                /\ services' = [s \in Services |-> rc[s] = 0]
                /\ out' = out \cup {"PXE Server Running! (status display)"}
        /\ pc' = "exited"

\* --status (main, lines 738-762)
CmdStatus ==
    /\ pc = "dispatch" /\ mode = "status"
    /\ \/ /\ envFile.exists
          /\ loaded' = LoadEnv(envFile.text)
          /\ \E probe \in [Services -> {0, 1}] : ShowStatus(LoadEnv(envFile.text), probe)
       \/ /\ ~envFile.exists
          /\ pc' = "exited"
          /\ term' = "return"
          /\ out' = out \cup {IF container_running(container)
                              THEN "INFO PXE server is running, but no saved configuration found"
                              ELSE "WARN PXE server is not running"}
          /\ UNCHANGED <<loaded, cmds, shown, services>>
    /\ UNCHANGED persistent
    /\ UNCHANGED scan
    /\ UNCHANGED <<mode, isRoot, chosenSource, picked, confirmAnswer, config, profile_config, nameAnswer, nm, startOk, extractOk,
                   envAtStart, writes>>

\* interactive mode: check_root, then image_exists / pull_image
\* (main, lines 764-776)
CheckImage ==
    /\ pc = "dispatch" /\ mode = "interactive"
    /\ \/ /\ ~isRoot
          /\ pc' = "exited" /\ term' = "exit1"
          /\ out' = out \cup {"ERROR must be run as root"}
          /\ UNCHANGED <<imagePresent, cmds>>
       \/ /\ isRoot /\ imagePresent
          /\ pc' = "get_config" /\ term' = term
          /\ out' = out \cup {"INFO Container image found"}
          /\ UNCHANGED <<imagePresent, cmds>>
       \/ /\ isRoot /\ ~imagePresent
          /\ \E rc \in {0, 1} :
                /\ cmds' = cmds \o <<Cmd("pull", "", rc)>>
                /\ IF RunCmd(FALSE, rc) = "raise"
                   THEN pc' = "exited" /\ term' = "traceback" /\ out' = out
                        /\ imagePresent' = imagePresent
                   ELSE IF rc # 0
                   THEN pc' = "exited" /\ term' = "exit1" /\ imagePresent' = imagePresent
                        /\ out' = out \cup {"ERROR Failed to pull container image",
                                            "ERROR Cannot proceed without container image"}
                   ELSE pc' = "get_config" /\ term' = term /\ imagePresent' = TRUE
                        /\ out' = out \cup {"INFO Container image pulled successfully"}
    /\ UNCHANGED <<podmanInstalled, container, envFile, dataDirs, savedCfg>>
    /\ UNCHANGED scan
    /\ UNCHANGED <<mode, isRoot, chosenSource, picked, confirmAnswer, config, profile_config, nameAnswer, nm, startOk, extractOk,
                   services, shown, loaded, envAtStart, writes>>

\* get_pxe_configuration (lines 218-253) with select_network_interface and
\* get_network_interfaces: linkRc is the status of `ip -o link show`
GetPxeConfiguration ==
    /\ pc = "get_config"
    /\ \E linkRc \in {0, 1}, ifaces \in InterfaceLists :
          \/ /\ RunCmd(TRUE, linkRc) = "raise"
             /\ pc' = "exited" /\ term' = "traceback" /\ out' = out
             /\ config' = config /\ picked' = picked
          \/ /\ RunCmd(TRUE, linkRc) # "raise" /\ linkRc = 0 /\ ifaces = <<>>
             /\ pc' = "exited" /\ term' = "exit1"
             /\ out' = out \cup {"ERROR No suitable network interfaces found"}
             /\ config' = config /\ picked' = picked
          \/ /\ RunCmd(TRUE, linkRc) # "raise" /\ linkRc = 0
             /\ \E i \in DOMAIN ifaces, answer \in IpAnswers :
                   /\ picked' = [iface |-> ifaces[i], answer |-> answer]
                   /\ IF ConfigRaises(ifaces[i], answer)
                      THEN pc' = "exited" /\ term' = "traceback" /\ out' = out
                           /\ config' = config
                      ELSE pc' = "select_source" /\ term' = term /\ out' = out
                           /\ config' = PxeConfiguration(ifaces[i], answer)
    /\ UNCHANGED persistent
    /\ UNCHANGED scan
    /\ UNCHANGED <<mode, isRoot, chosenSource, confirmAnswer, profile_config, nameAnswer, nm, startOk, extractOk,
                   cmds, services, shown, loaded, envAtStart, writes>>

\* select_source and get_profile_config (main, lines 781-783)
SelectSource ==
    /\ pc = "select_source"
    /\ \E source \in Sources, answer \in NameAnswers :
          /\ source = NoSource => answer = <<>>
          /\ profile_config' = GetProfileConfig(source, answer)
          /\ chosenSource' = source
          /\ nameAnswer' = answer
    /\ pc' = "confirm"
    /\ UNCHANGED persistent
    /\ UNCHANGED scan
    /\ UNCHANGED <<mode, isRoot, picked, confirmAnswer, config, nm, startOk, extractOk,
                   cmds, out, term, services, shown, loaded, envAtStart, writes>>

\* the confirmation prompt (main, lines 804-807)
Confirm ==
    /\ pc = "confirm"
    /\ \E answer \in {"", "y", "n"} :
          /\ confirmAnswer' = answer
          /\ IF ConfirmNext(answer) = "cancel"
             THEN pc' = "exited" /\ term' = "exit0" /\ out' = out \cup {"INFO Cancelled"}
             ELSE pc' = "configure_network" /\ term' = term /\ out' = out
    /\ UNCHANGED persistent
    /\ UNCHANGED scan
    /\ UNCHANGED <<mode, isRoot, chosenSource, picked, config, profile_config, nameAnswer, nm, startOk, extractOk,
                   cmds, services, shown, loaded, envAtStart, writes>>

\* configure_network_interface (lines 478-503): nmcli may be missing, and
\* its add / up commands may fail
ConfigureNetworkInterface ==
    /\ pc = "configure_network"
    /\ \E nmcli \in BOOLEAN, addRc \in {0, 1}, upRc \in {0, 1} :
          IF ~nmcli
          THEN /\ addRc = 0 /\ upRc = 0
               /\ nm' = "missing"
               /\ out' = out \cup {"WARN nmcli not found, skipping network configuration"}
               /\ pc' = "save_config" /\ term' = term
          ELSE IF RunCmd(FALSE, addRc) = "raise" \/ RunCmd(FALSE, upRc) = "raise"
          THEN nm' = "failed" /\ out' = out /\ pc' = "exited" /\ term' = "traceback"
          ELSE /\ nm' = IF addRc = 0 /\ upRc = 0 THEN "ok" ELSE "failed"
               /\ out' = out
               /\ pc' = "save_config" /\ term' = term
    /\ UNCHANGED persistent
    /\ UNCHANGED scan
    /\ UNCHANGED <<mode, isRoot, chosenSource, picked, confirmAnswer, config, profile_config, nameAnswer, startOk, extractOk,
                   cmds, services, shown, loaded, envAtStart, writes>>

\* main, lines 812-823: write pxe-server.env
SaveConfig ==
    /\ pc = "save_config"
    /\ envFile' = [exists |-> TRUE, text |-> EnvContent(config)]
    /\ savedCfg' = config
    /\ writes' = writes + 1
    /\ pc' = "start_container"
    /\ UNCHANGED <<podmanInstalled, imagePresent, container, dataDirs>>
    /\ UNCHANGED scan
    /\ UNCHANGED <<mode, isRoot, chosenSource, picked, confirmAnswer, config, profile_config, nameAnswer, nm, startOk, extractOk,
                   cmds, out, term, services, shown, loaded, envAtStart>>

RunOutcomes == {"ok", "fail_clean", "fail_created"}

\* the call of start_container (main, line 826)
StartContainerCall ==
    /\ pc = "start_container"
    /\ \E stopOk \in BOOLEAN, run \in RunOutcomes :
          LET r == StartContainer(container, config, [stop |-> stopOk, run |-> run])
          IN  /\ container' = r.container
              /\ cmds' = cmds \o r.cmds
              /\ IF AnyRaise(FALSE, r.cmds)
                 THEN pc' = "exited" /\ term' = "traceback" /\ startOk' = startOk
                      /\ out' = out
                 ELSE pc' = "after_start" /\ term' = term
                      /\ startOk' = (IF r.ret THEN "True" ELSE "False")
                      /\ out' = out \cup {IF r.ret THEN "INFO Container started successfully"
                                          ELSE "ERROR Failed to start container"}
    /\ dataDirs' = TRUE
    /\ UNCHANGED <<podmanInstalled, imagePresent, envFile, savedCfg>>
    /\ UNCHANGED scan
    /\ UNCHANGED <<mode, isRoot, chosenSource, picked, confirmAnswer, config, profile_config, nameAnswer, nm, extractOk,
                   services, shown, loaded, envAtStart, writes>>

\* main, lines 826-831: act on start_container's return value
AfterStart ==
    /\ pc = "after_start"
    /\ LET next == AfterStartNext(startOk = "True", profile_config.exists)
       IN  IF next = "exit1"
           THEN pc' = "exited" /\ term' = "exit1"
           ELSE pc' = next /\ term' = term
    /\ UNCHANGED persistent
    /\ UNCHANGED scan
    /\ UNCHANGED <<mode, isRoot, chosenSource, picked, confirmAnswer, config, profile_config, nameAnswer, nm, startOk, extractOk,
                   cmds, out, services, shown, loaded, envAtStart, writes>>

\* the call of extract_boot_files (main, line 831)
ExtractBootFilesCall ==
    /\ pc = "extract"
    /\ \E stopOk \in BOOLEAN, run \in RunOutcomes, execRc \in {0, 1} :
          LET r == ExtractBootFiles(container, profile_config, config,
                                    [stop |-> stopOk, run |-> run, exec |-> execRc])
          IN  /\ container' = r.container
              /\ cmds' = cmds \o r.cmds
              /\ IF AnyRaise(FALSE, r.cmds)
                 THEN pc' = "exited" /\ term' = "traceback" /\ extractOk' = extractOk
                      /\ out' = out
                 ELSE pc' = "after_extract" /\ term' = term
                      /\ extractOk' = (IF r.ret THEN "True" ELSE "False")
                      /\ out' = out \cup {IF r.cmds = <<>> THEN "INFO Skipping boot file extraction"
                                          ELSE IF r.ret THEN "INFO Boot files extracted successfully"
                                          ELSE IF Len(r.cmds) = 3
                                          THEN "ERROR Failed to restart container with source mount"
                                          ELSE "ERROR Extraction failed"}
    /\ UNCHANGED <<podmanInstalled, imagePresent, envFile, dataDirs, savedCfg>>
    /\ UNCHANGED scan
    /\ UNCHANGED <<mode, isRoot, chosenSource, picked, confirmAnswer, config, profile_config, nameAnswer, nm, startOk,
                   services, shown, loaded, envAtStart, writes>>

\* main, lines 831-836: a failed extraction is a warning
AfterExtract ==
    /\ pc = "after_extract"
    /\ LET next == AfterExtractNext(extractOk = "True")
       IN  IF next = "exit1"
           THEN pc' = "exited" /\ term' = "exit1"
           ELSE pc' = next /\ term' = term
    /\ out' = IF extractOk = "True" THEN out
              ELSE out \cup {"WARN Boot file extraction failed, but server is running"}
    /\ UNCHANGED persistent
    /\ UNCHANGED scan
    /\ UNCHANGED <<mode, isRoot, chosenSource, picked, confirmAnswer, config, profile_config, nameAnswer, nm, startOk, extractOk,
                   cmds, services, shown, loaded, envAtStart, writes>>

\* the final show_status of an interactive run (main, line 836)
ShowStatusCall ==
    /\ pc = "show_status"
    /\ \E probe \in [Services -> {0, 1}] : ShowStatus(config, probe)
    /\ UNCHANGED persistent
    /\ UNCHANGED scan
    /\ UNCHANGED <<mode, isRoot, chosenSource, picked, confirmAnswer, config, profile_config, nameAnswer, nm, startOk, extractOk,
                   loaded, envAtStart, writes>>

Next ==
    \/ \E m \in Modes, root \in BOOLEAN : Invoke(m, root)
    \/ CmdStop
    \/ CmdLogs
    \/ CmdShell
    \/ CmdStatus
    \/ CheckImage
    \/ GetPxeConfiguration
    \/ SelectSource
    \/ Confirm
    \/ ConfigureNetworkInterface
    \/ SaveConfig
    \/ StartContainerCall
    \/ AfterStart
    \/ ExtractBootFilesCall
    \/ AfterExtract
    \/ ShowStatusCall

Spec == Init /\ [][Next]_vars

(* --------------------------- the drive scan ---------------------------- *)
\* nothing is running: the launcher's own state is at rest
AtRest ==
    /\ podmanInstalled = TRUE
    /\ imagePresent = TRUE
    /\ container = Absent
    /\ envFile = NoFile
    /\ dataDirs = FALSE
    /\ savedCfg = NoConfig
    /\ LocalsInit

ScanInit ==
    /\ AtRest
    /\ mounts \in MountTables
    /\ drives = {}
    /\ scanPc = "ready"

\* a call of find_usb_drives (select_usb_source, line 325)
FindUsbDrivesCall ==
    /\ scanPc = "ready"
    /\ drives' = FindUsbDrives(FileSystem(mounts))
    /\ scanPc' = "scanned"
    /\ UNCHANGED <<mounts, persistent, locals>>

\* between two scans the user mounts, unmounts or replaces one directory
Remount ==
    /\ scanPc = "scanned"
    /\ \E c \in MountCandidates : \E k \in MountKinds(c) :
          /\ k # mounts[c]
          /\ mounts' = [mounts EXCEPT ![c] = k]
    /\ drives' = {}
    /\ scanPc' = "ready"
    /\ UNCHANGED <<persistent, locals>>

ScanNext == FindUsbDrivesCall \/ Remount

SpecScan == ScanInit /\ [][ScanNext]_vars

TypeOK ==
    /\ pc \in {"idle", "dispatch", "get_config", "select_source", "confirm",
               "configure_network", "save_config", "start_container", "after_start",
               "extract", "after_extract", "show_status", "exited"}
    /\ term \in {"none", "return", "exit0", "exit1", "traceback", "execvp"}
    /\ container.status \in {"absent", "stopped", "running"}
    /\ writes \in 0..1

(* ------------------------- claim vocabulary ---------------------------- *)
STATUS_DISPLAY == "PXE Server Running! (status display)"
Issued(name, what) == {i \in DOMAIN cmds : cmds[i].cmd = name /\ cmds[i].what = what}
Failed(name, what) == \E i \in Issued(name, what) : cmds[i].rc # 0
AllSucceeded == nm = "ok" /\ \A i \in DOMAIN cmds : cmds[i].rc = 0
IsRunCmd(e) == e.cmd = "run"
RunsIssued == SelectSeq(cmds, IsRunCmd)
InteractiveEnded == pc = "exited" /\ mode = "interactive"
SourceChosenAllOk == InteractiveEnded /\ profile_config.exists /\ term = "return" /\ AllSucceeded

\* C1 (as stated): an interactive run with a chosen source in which every
\* external command succeeds ends with the container RUNNING in the serving
\* template (not privileged, no source bind mount).
C1_EndsInServingTemplate ==
    SourceChosenAllOk => (container.status = "running" /\ IsServing(container))

\* C1 (amended): such a run ends with the container RUNNING in the extraction
\* template (privileged, source bind-mounted); the run created the container
\* twice, serving then extracting, and never returned to the serving template.
C1_EndsInExtractionTemplate ==
    SourceChosenAllOk =>
        /\ container.status = "running"
        /\ IsExtracting(container)
        /\ <<profile_config.source.path, SOURCE_MOUNT, "ro">> \in container.args.volumes
        /\ [i \in DOMAIN RunsIssued |-> RunsIssued[i].what] = <<"serving", "extracting">>

C1_Witness == SourceChosenAllOk /\ profile_config.source = IsoSource

\* C2: when the podman run of the extraction template fails,
\* extract_boot_files returns False without raising, the process is not
\* aborted, and the managed container is still running afterwards.
C2_StillRunningAfterFailedRestart ==
    (mode = "interactive" /\ pc \in {"after_extract", "show_status", "exited"}
       /\ Failed("run", "extracting"))
    => (extractOk = "False" /\ term \notin {"traceback", "exit1"}
          /\ container.status = "running")

\* C3: a failure of a best-effort step (nmcli missing or failing, extraction
\* failing) never aborts an interactive run whose serving container started:
\* the run warns, reaches the status display and returns normally.
C3_BestEffortNeverAborts ==
    /\ (mode = "interactive" /\ nm \in {"missing", "failed"}) =>
          /\ term \notin {"traceback"}
          /\ (nm = "missing" => "WARN nmcli not found, skipping network configuration" \in out)
          /\ (term = "exit1" => startOk = "False")
    /\ (mode = "interactive" /\ extractOk = "False") =>
          /\ term \notin {"traceback", "exit1", "exit0"}
          /\ pc \in {"after_extract", "show_status", "exited"}
          /\ (pc # "after_extract" =>
                "WARN Boot file extraction failed, but server is running" \in out)
    /\ (InteractiveEnded /\ startOk = "True"
          /\ (nm \in {"missing", "failed"} \/ extractOk = "False")) =>
          (term = "return" /\ STATUS_DISPLAY \in out)

C3_Witness ==
    InteractiveEnded /\ nm = "missing" /\ extractOk = "False" /\ term = "return"
    /\ Failed("exec", "extract-boot-files.sh")

\* C4: once the extraction entrypoint has returned non-zero, the run issues
\* no stop, remove or run: the only later commands are the status probes,
\* and the container stays running in the extraction template.
C4_FailedExtractionLeftInExtractionTemplate ==
    \A i \in Issued("exec", "extract-boot-files.sh") :
        cmds[i].rc # 0 =>
            /\ \A j \in (i + 1)..Len(cmds) : cmds[j].cmd = "pgrep"
            /\ container.status = "running"
            /\ IsExtracting(container)
            /\ extractOk = "False"

C4_Witness ==
    InteractiveEnded /\ Failed("exec", "extract-boot-files.sh") /\ Len(cmds) > 4
    /\ cmds[Len(cmds)].cmd = "pgrep"

\* C5: a failed image pull or a failed serving-template start aborts the
\* interactive run with exit code 1; start_container only returns False
\* (the run is still alive at its return), and neither the extraction nor the
\* status display is ever reached.
C5_InfrastructureFailureAborts ==
    (mode = "interactive" /\ (Failed("pull", "") \/ Failed("run", "serving"))) =>
        /\ pc \in {"after_start", "exited"}
        /\ (pc = "exited" => term = "exit1")
        /\ (pc = "after_start" => term = "none")
        /\ (Failed("run", "serving") => startOk = "False")
        /\ extractOk = "none"
        /\ Issued("run", "extracting") = {}
        /\ Issued("exec", "extract-boot-files.sh") = {}
        /\ \A i \in DOMAIN cmds : cmds[i].cmd # "pgrep"
        /\ STATUS_DISPLAY \notin out

C5_Witness ==
    InteractiveEnded /\ Failed("run", "serving") /\ term = "exit1" /\ profile_config.exists

\* the dotted quads a server IP can be in this model: typed, observed on the
\* interface, or the fallback
QuadsInPlay == TypedOctets \cup {<<10, 0, 5, 9>>, <<192, 168, 0, 1>>}
WithLast(o, last) == Dotted(<<o[1], o[2], o[3], last>>)

\* C6: for a server IP a.b.c.d the derived configuration has subnet a.b.c.0,
\* range a.b.c.201 - a.b.c.240, netmask 255.255.255.0 and router = dns =
\* server_ip; with no IP entered, server_ip is the interface's IPv4 if it has
\* one, else 192.168.0.1.
C6_DerivedConfiguration ==
    config # NoConfig =>
        /\ \A o \in QuadsInPlay :
              config.server_ip = Dotted(o) =>
                  /\ config.subnet = WithLast(o, 0)
                  /\ config.range_start = WithLast(o, 201)
                  /\ config.range_end = WithLast(o, 240)
                  /\ config.netmask = Dotted(<<255, 255, 255, 0>>)
                  /\ config.router = config.server_ip
                  /\ config.dns = config.server_ip
        /\ \E o \in QuadsInPlay : config.server_ip = Dotted(o)
        /\ config.interface = picked.iface.name
        /\ picked.answer = <<>> =>
              config.server_ip = IF picked.iface.ip = <<"-", "-">>
                                 THEN Dotted(<<192, 168, 0, 1>>)
                                 ELSE picked.iface.ip
        /\ picked.answer # <<>> => config.server_ip = picked.answer

C6_Witness ==
    /\ pc = "select_source"
    /\ picked.answer = <<>>
    /\ picked.iface.ip = Dotted(<<10, 0, 5, 9>>)
    /\ config.subnet = Dotted(<<10, 0, 5, 0>>)

IsLowerText(t) == \A i \in DOMAIN t : t[i] \notin Range(UpperChars)

\* C7 (as stated): every profile_name, default or typed, contains only
\* [A-Za-z0-9_], is lowercase and is at most 20 characters long.
C7_ProfileNameSanitizedLowerShort ==
    profile_config.exists =>
        /\ Range(profile_config.profile) \subseteq WordChars
        /\ IsLowerText(profile_config.profile)
        /\ Len(profile_config.profile) <= 20

\* C7 (amended): every profile_name contains only [A-Za-z0-9_]; a default
\* name (Enter at the prompt) is also lowercase and at most 20 characters
\* long, while a typed name keeps its case and its length.
C7_ProfileNameSanitized ==
    profile_config.exists =>
        /\ Range(profile_config.profile) \subseteq WordChars
        /\ nameAnswer = <<>> =>
              /\ IsLowerText(profile_config.profile)
              /\ Len(profile_config.profile) <= 20
        /\ nameAnswer # <<>> => Len(profile_config.profile) = Len(nameAnswer)

C7_Witness ==
    /\ profile_config.exists
    /\ nameAnswer = <<>>
    /\ Len(profile_config.source.label) > 20
    /\ Len(profile_config.profile) = 20

ConfigFields == {"interface", "server_ip", "subnet", "netmask",
                 "range_start", "range_end", "router", "dns"}
StatusLoaded == mode = "status" /\ pc = "exited" /\ envFile.exists /\ podmanInstalled

\* C8 (as stated): the config loaded from the persisted file equals the
\* config that was written in every one of the eight fields.
C8_RoundTripAllFields ==
    StatusLoaded =>
        \A f \in ConfigFields : f \in DOMAIN loaded /\ loaded[f] = savedCfg[f]

\* C8 (amended): the loaded config equals the written one in interface,
\* server_ip, range_start and range_end; subnet, netmask, router and dns are
\* written to the file but not loaded.
C8_RoundTripLoadedFields ==
    StatusLoaded =>
        /\ DOMAIN loaded = {"interface", "server_ip", "range_start", "range_end"}
        /\ \A f \in DOMAIN loaded : loaded[f] = savedCfg[f]
        /\ shown = loaded

C8_Witness == StatusLoaded /\ loaded.server_ip = Dotted(<<172, 16, 0, 1>>)

\* C9 (as stated): the file is written once per successful interactive run,
\* and a run that does not end successfully (start failure, cancel) leaves
\* the previously persisted file unchanged.
C9_WrittenOnlyOnSuccess ==
    InteractiveEnded =>
        IF term = "return" THEN writes = 1 ELSE envFile = envAtStart

\* C9 (amended): the file is written exactly once in every interactive run
\* that gets past the confirmation prompt, before the serving container is
\* started, and in no other run: a cancelled run leaves the previous file
\* unchanged, a run whose container start fails has already replaced it.
C9_WrittenOncePastConfirmation ==
    /\ writes = (IF mode = "interactive" /\ confirmAnswer \in {"", "y"}
                    /\ pc \notin {"configure_network", "save_config"}
                    /\ nm # "none"
                 THEN 1 ELSE 0)
    /\ writes = 0 => envFile = envAtStart
    /\ writes = 1 => envFile = [exists |-> TRUE, text |-> EnvContent(config)]
    /\ confirmAnswer = "n" => (pc = "exited" /\ term = "exit0" /\ envFile = envAtStart)
    /\ startOk # "none" => writes = 1

C9_Witness ==
    InteractiveEnded /\ startOk = "False" /\ term = "exit1" /\ writes = 1
    /\ envFile # envAtStart

\* C10: --status issues no stop, remove or run (only process probes), writes
\* no config file, never ends in a traceback, renders a failing probe as a
\* down indicator, and with no file and no running container warns "not
\* running" and returns normally.
C10_StatusReadOnly ==
    mode = "status" =>
        /\ \A i \in DOMAIN cmds : cmds[i].cmd = "pgrep"
        /\ writes = 0 /\ envFile = envAtStart
        /\ term # "traceback"
        /\ (pc = "exited" /\ podmanInstalled) =>
              /\ term = "return"
              /\ envFile.exists =>
                    /\ Len(cmds) = 3
                    /\ \A i \in DOMAIN cmds : services[cmds[i].what] = (cmds[i].rc = 0)
                    /\ STATUS_DISPLAY \in out
              /\ (~envFile.exists /\ container.status # "running") =>
                    out = {"WARN PXE server is not running"}

C10_Witness ==
    /\ mode = "status" /\ pc = "exited" /\ envFile.exists
    /\ container.status = "running"
    /\ ~services["dhcpd"] /\ services["httpd"]

Scanned == scanPc = "scanned"
DrivePaths == {d.path : d \in drives}
DirsOnHost == {e.path : e \in {x \in FileSystem(mounts) : x.kind = "dir"}}
LevelsBelowRoot(path, k) ==
    \E base \in {<<"run", "media">>, <<"media">>, <<"mnt">>} :
        Len(path) = Len(base) + k /\ SubSeq(path, 1, Len(base)) = base
HoldsMarker(path) ==
    [path |-> path \o <<"LiveOS", "squashfs.img">>, kind |-> "file"] \in FileSystem(mounts)

\* C11 (as stated): find_usb_drives returns a directory if and only if it
\* lies one or two levels below a scanned root and contains
\* LiveOS/squashfs.img.
C11_ReturnedIffMarkedWithinTwoLevels ==
    Scanned =>
        \A path \in DirsOnHost :
            path \in DrivePaths <=>
                ((LevelsBelowRoot(path, 1) \/ LevelsBelowRoot(path, 2)) /\ HoldsMarker(path))

\* C11 (amended): find_usb_drives returns a directory if and only if it
\* contains LiveOS/squashfs.img and lies one level below a scanned root, or
\* two levels below inside a first-level directory not named root; nothing
\* but such directories is returned, each with its name as label.
C11_ReturnedIffMarkedAndSearched ==
    Scanned =>
        /\ \A path \in DirsOnHost :
              path \in DrivePaths <=>
                  /\ HoldsMarker(path)
                  /\ \/ LevelsBelowRoot(path, 1)
                     \/ LevelsBelowRoot(path, 2) /\ path[Len(path) - 1] # "root"
        /\ DrivePaths \subseteq DirsOnHost
        /\ \A d \in drives : d.label = d.path[Len(d.path)]

C11_Witness ==
    /\ Scanned
    /\ mounts[<<"run", "media", "root", "LIVE">>] = "marked"
    /\ <<"run", "media", "root", "LIVE">> \notin DrivePaths
    /\ <<"run", "media", "user", "LIVE">> \in DrivePaths
    /\ <<"mnt", "root">> \in DrivePaths

EXTRACT_SH == "extract-boot-files.sh"

\* C12: the extraction entrypoint is exec'ed only right after stop, rm and a
\* successful run of the extraction template, in that order, later than the
\* serving container's creation; it runs in the extraction-template
\* container and never after a failed re-creation.
C12_ExecOnlyAfterRecreation ==
    \A i \in Issued("exec", EXTRACT_SH) :
        /\ i >= 5
        /\ cmds[i - 3] = [cmd |-> "stop", what |-> "", rc |-> 0]
        /\ cmds[i - 2] = [cmd |-> "rm", what |-> "", rc |-> 0]
        /\ cmds[i - 1] = [cmd |-> "run", what |-> "extracting", rc |-> 0]
        /\ \E j \in 1..(i - 4) : cmds[j] = [cmd |-> "run", what |-> "serving", rc |-> 0]
        /\ ~Failed("run", "extracting")
        /\ container.status = "running"
        /\ IsExtracting(container)

C12_Witness ==
    /\ pc = "after_extract"
    /\ Issued("exec", EXTRACT_SH) # {}
    /\ extractOk = "True"

\* the commands a step appends to cmds
Appended == IF Len(cmds') > Len(cmds) /\ SubSeq(cmds', 1, Len(cmds)) = cmds
            THEN SubSeq(cmds', Len(cmds) + 1, Len(cmds'))
            ELSE <<>>

\* C13: every podman run (serving or extraction) comes right after a stop and
\* a remove issued in the same call when a container exists at that moment
\* (start_container skips them only when none exists), and a run that
\* succeeds does so after the old instance was removed: the named container
\* is never duplicated.
C13_RunStep ==
    \A i \in DOMAIN Appended :
        Appended[i].cmd = "run" =>
            /\ \/ i = 3 /\ Appended[1].cmd = "stop" /\ Appended[2].cmd = "rm"
               \/ i = 1 /\ container.status = "absent"
            /\ Appended[i].rc = 0 =>
                  /\ container'.status = "running"
                  /\ container.status # "absent" => Appended[2].rc = 0
            /\ (Appended[i].rc # 0 /\ i = 3 /\ Appended[2].rc # 0) => container' = container
C13_DestructiveThenRecreate == [][C13_RunStep]_vars

C13_Witness ==
    /\ Len(cmds) >= 6
    /\ cmds[1].cmd = "stop" /\ cmds[2].cmd = "rm"
    /\ cmds[3] = [cmd |-> "run", what |-> "serving", rc |-> 0]
    /\ cmds[4].cmd = "stop" /\ cmds[5].cmd = "rm"
    /\ cmds[6] = [cmd |-> "run", what |-> "extracting", rc |-> 0]

\* C14: when select_source returns None there is no profile, the extraction
\* is never entered, and after the serving run only status probes are
\* issued: a started container stays in the serving template.
C14_NoSourceNoExtraction ==
    /\ (mode = "interactive" /\ chosenSource = NoSource) =>
          /\ ~profile_config.exists
          /\ pc \notin {"extract", "after_extract"}
          /\ extractOk = "none"
          /\ Issued("run", "extracting") = {}
          /\ Issued("exec", EXTRACT_SH) = {}
          /\ \A i \in Issued("run", "serving") :
                \A j \in (i + 1)..Len(cmds) : cmds[j].cmd = "pgrep"
          /\ startOk = "True" =>
                /\ container.status = "running"
                /\ ~container.args.privileged
                /\ \A v \in container.args.volumes : v[2] # <<"mnt", "source">>
    /\ chosenSource.type \in {"usb", "iso"} =>
          (profile_config.exists /\ profile_config.source = chosenSource)

C14_Witness ==
    /\ InteractiveEnded /\ chosenSource = NoSource
    /\ term = "return" /\ startOk = "True"
    /\ Len(cmds) > 3

\* C15: the extraction creation equals the serving creation of the same run
\* in name, network, capabilities, environment, image and the three data
\* volumes, and adds exactly --privileged and the read-only bind mount of the
\* source path at /mnt/source.
C15_RecreationStep ==
    (pc = "extract" /\ container.status = "running"
       /\ \E i \in DOMAIN Appended : Appended[i] = [cmd |-> "run", what |-> "extracting", rc |-> 0])
    => LET a == container.args
           b == container'.args
       IN  /\ b.name = a.name /\ b.name = "pxe-server"
           /\ b.network = a.network /\ b.network = "host"
           /\ b.caps = a.caps /\ b.caps = {"NET_ADMIN", "NET_RAW"}
           /\ b.env = a.env
           /\ b.env = [DHCP_INTERFACE |-> config.interface, PXE_SERVER_IP |-> config.server_ip]
           /\ b.image = a.image
           /\ ~a.privileged /\ b.privileged
           /\ Cardinality(a.volumes) = 3
           /\ {v[2] : v \in a.volumes} = {<<"var", "lib", "tftpboot">>, <<"var", "www", "html">>,
                                          <<"etc", "dhcp", "dhcpd.conf">>}
           /\ a.volumes \subseteq b.volumes
           /\ b.volumes \ a.volumes = {<<profile_config.source.path, <<"mnt", "source">>, "ro">>}
C15_ExtractionIsServingPlusTwo == [][C15_RecreationStep]_vars

C15_Witness ==
    /\ pc = "after_extract"
    /\ container.status = "running"
    /\ container.args.privileged
    /\ <<UsbSource.path, <<"mnt", "source">>, "ro">> \in container.args.volumes
    /\ Cardinality(container.args.volumes) = 4

====
